---- MODULE Spec2Model ----
(***************************************************************************)
(* A model of the weather web application (src/main.py, src/models.py):    *)
(* the users, cities and default_cities tables, the signed session token   *)
(* held in the browser cookie, the clock, and one action per HTTP handler. *)
(* Each handler action sets resp, the record of the last request handled   *)
(* and of the response it got, so that properties can speak of what a      *)
(* request was given and what it returned.                                 *)
(***************************************************************************)
EXTENDS Integers, Sequences, FiniteSets, TLC

VARIABLES users, cities, default_cities, cookie, saved, now, ticks, resp

vars == <<users, cities, default_cities, cookie, saved, now, ticks, resp>>

----------------------------------------------------------------------------
(* Bounds of the model.                                                    *)

\* users that may register
MaxUsers == 2
\* highest cities.id the model lets the table reach
MaxCityId == 4
\* clock steps of a behaviour
MaxTicks == 3

(* Program constants.                                                      *)

\* max_age of serializer.loads, seconds
MAX_AGE == 3600
\* timedelta(minutes=1), seconds
STALE_SECONDS == 60

SECRET_KEY == "123456"
SALT == "salt_registration"

(* Inputs.                                                                 *)

\* strings are sequences of characters, so that lower() and LIKE can be
\* computed on them
Usernames == {<<"a">>, <<"A">>}
LoginNames == Usernames \cup {<<"%">>}
Passwords == {"pw1", "pw2"}
BcryptSalts == {"s1"}
\* the rows of europe.csv
EuropeCsv == << [name |-> "Minsk", latitude |-> 53, longitude |-> 27],
                [name |-> "Paris", latitude |-> 48, longitude |-> 2] >>
\* the form of POST /cities/add: add_city makes no duplicate check, and the
\* form names a city the defaults hold too
AddForms == {[name |-> "Minsk", latitude |-> 53, longitude |-> 27]}
\* temperatures the weather API reports
Temperatures == {5}

----------------------------------------------------------------------------
(* Python values: a call returns a value or raises; None is 0 where an id  *)
(* is expected, and the empty set where a nullable column is.              *)

Return(v) == [tag |-> "return", value |-> v, exc |-> ""]
Raise(e) == [tag |-> "raise", value |-> 0, exc |-> e]

\* the exception classes of itsdangerous and their base classes
IsInstance(exc, class) ==
    \/ exc = class
    \/ exc = "SignatureExpired" /\ class = "BadSignature"

\* the names of itsdangerous bound in main.py
ImportedNames == {"URLSafeTimedSerializer"}

Max(S) == CHOOSE x \in S : \A y \in S : y <= x
Min(S) == CHOOSE x \in S : \A y \in S : x <= y

----------------------------------------------------------------------------
(* Session tokens.                                                         *)

Sign(key, salt, user_id, ts) ==
    [key |-> key, salt |-> salt, user_id |-> user_id, ts |-> ts]

NoToken == [shape |-> "none", user_id |-> 0, ts |-> 0,
            sig |-> Sign("", "", 0, 0)]
MalformedToken == [shape |-> "malformed", user_id |-> 0, ts |-> 0,
                   sig |-> Sign("", "", 0, 0)]

create_token(user_id, t) ==
    [shape |-> "signed", user_id |-> user_id, ts |-> t,
     sig |-> Sign(SECRET_KEY, SALT, user_id, t)]

\* URLSafeTimedSerializer.loads
loads(token, salt, max_age, t) ==
    IF token.shape # "signed" THEN Raise("BadSignature")
    ELSE IF token.sig # Sign(SECRET_KEY, salt, token.user_id, token.ts)
         THEN Raise("BadSignature")
    ELSE IF t - token.ts > max_age THEN Raise("SignatureExpired")
    ELSE Return(token.user_id)

\* an except clause evaluates its class expression when an exception reaches
\* it: a name that is not bound raises NameError in place of the handling
validate_token(session_token, t) ==
    LET r == loads(session_token, SALT, MAX_AGE, t) IN
    IF r.tag = "return" THEN r
    ELSE IF "SignatureExpired" \notin ImportedNames THEN Raise("NameError")
    ELSE IF IsInstance(r.exc, "SignatureExpired") THEN Return(0)
    ELSE IF "BadSignature" \notin ImportedNames THEN Raise("NameError")
    ELSE IF IsInstance(r.exc, "BadSignature") THEN Return(0)
    ELSE r

UserIds == {users[i].id : i \in DOMAIN users}

get_current_user(session_token) ==
    IF session_token.shape = "none" THEN Return(0)
    ELSE LET data == validate_token(session_token, now) IN
         IF data.tag = "raise" THEN data
         ELSE IF data.value = 0 THEN Return(0)
         ELSE IF data.value \notin UserIds THEN Return(0)
         ELSE Return(data.value)

\* tokens a client can send without the server having issued them: garbage,
\* a token signed with a guessed key, a token of the client with the user id
\* changed
ForgedTokens ==
    {MalformedToken,
     [shape |-> "signed", user_id |-> 1, ts |-> now,
      sig |-> Sign("guess", SALT, 1, now)]}
    \cup (IF saved.shape = "signed"
          THEN {[saved EXCEPT !.user_id = saved.user_id + 1]} ELSE {})

----------------------------------------------------------------------------
(* Passwords.                                                              *)

hash_password(password, salt) == [salt |-> salt, digest |-> <<salt, password>>]

verify_password(plain_password, hashed_password) ==
    hashed_password.digest = <<hashed_password.salt, plain_password>>

----------------------------------------------------------------------------
(* Strings: lower() and LIKE of SQLite, as ilike() renders them.           *)

LowerChar(c) == CASE c = "A" -> "a" [] c = "B" -> "b" [] OTHER -> c

Lower(s) == [i \in DOMAIN s |-> LowerChar(s[i])]

RECURSIVE Like(_, _)
Like(s, p) ==
    IF p = <<>> THEN s = <<>>
    ELSE IF Head(p) = "%"
         THEN Like(s, Tail(p)) \/ (s # <<>> /\ Like(Tail(s), p))
    ELSE /\ s # <<>>
         /\ (Head(p) = "_" \/ Head(p) = Head(s))
         /\ Like(Tail(s), Tail(p))

ilike(column, pattern) == Like(Lower(column), Lower(pattern))

----------------------------------------------------------------------------
(* Tables.                                                                 *)

\* SQLite gives an INTEGER PRIMARY KEY the largest id of the table plus one
NextId(ids) == IF ids = {} THEN 1 ELSE Max(ids) + 1

CityIds == {c.id : c \in cities}

City(id, name, latitude, longitude, user_id) ==
    [id |-> id, name |-> name, latitude |-> latitude, longitude |-> longitude,
     temperature |-> {}, updated_at |-> {}, user_id |-> user_id]

CitiesOf(user_id) == {c \in cities : c.user_id = user_id}

\* the default cities in the order of the query, here by id
DefaultSeq ==
    [i \in 1..Cardinality(default_cities) |->
        CHOOSE d \in default_cities : d.id = i]

\* one City per DefaultCity among the first k, with ids from first on
SeedCities(k, first, user_id) ==
    {City(first + i - 1, DefaultSeq[i].name, DefaultSeq[i].latitude,
          DefaultSeq[i].longitude, user_id) : i \in 1..k}

populate_default_cities(table, rows) ==
    IF table # {} THEN table
    ELSE {[id |-> i, name |-> rows[i].name, latitude |-> rows[i].latitude,
           longitude |-> rows[i].longitude] : i \in DOMAIN rows}

Reply(op, status, user, detail) ==
    resp' = [op |-> op, status |-> status, user |-> user, detail |-> detail]

----------------------------------------------------------------------------
Init ==
    /\ users = <<>>
    /\ cities = {}
    /\ default_cities = populate_default_cities({}, EuropeCsv)
    /\ cookie = NoToken
    /\ saved = NoToken
    /\ now = 0
    /\ ticks = 0
    /\ resp = [op |-> "startup", status |-> 0, user |-> 0, detail |-> <<>>]

----------------------------------------------------------------------------
(* The handlers. Each is one action; a handler that commits more than once *)
(* takes commits_ok, the number of its commits that succeed before the     *)
(* persistence layer fails (a full run when it is the number of commits).  *)

\* a handler whose user dependency raised, or gave no user
Denied(op, auth) ==
    /\ Reply(op, IF auth.tag = "raise" THEN 500 ELSE 401, 0, <<>>)
    /\ UNCHANGED <<users, cities, default_cities, cookie, saved, now, ticks>>

add_city(form) ==
    LET auth == get_current_user(cookie)
        id == NextId(CityIds) IN
    IF auth.tag = "raise" \/ auth.value = 0 THEN Denied("add", auth)
    ELSE /\ id <= MaxCityId
         /\ cities' = cities \cup
               {City(id, form.name, form.latitude, form.longitude, auth.value)}
         /\ Reply("add", 303, auth.value, <<>>)
         /\ UNCHANGED <<users, default_cities, cookie, saved, now, ticks>>

\* the filter without the owner: a city of any user is found by its id
RemoveFilterAnyOwner(c, city_id, user_id) == c.id = city_id

RemoveFilter(c, city_id, user_id) == c.id = city_id /\ c.user_id = user_id

remove_city(city_id) ==
    LET auth == get_current_user(cookie)
        found == {c \in cities : RemoveFilter(c, city_id, auth.value)} IN
    IF auth.tag = "raise" \/ auth.value = 0 THEN Denied("remove", auth)
    ELSE /\ cities' = cities \ found
         /\ Reply("remove", 303, auth.value, [city_id |-> city_id])
         /\ UNCHANGED <<users, default_cities, cookie, saved, now, ticks>>

ResetFilter(c, user_id) == c.user_id = user_id

\* the table after reset_cities when its first k commits succeed: the DELETE
\* and the first INSERT are in the first commit, each later INSERT in its own
ResetCommitted(user_id, k) ==
    LET kept == {c \in cities : ~ResetFilter(c, user_id)} IN
    IF k = 0 THEN cities
    ELSE kept \cup SeedCities(k, NextId({c.id : c \in kept}), user_id)

reset_cities(commits_ok) ==
    LET auth == get_current_user(cookie)
        n == Cardinality(default_cities)
        kept == {c \in cities : ~ResetFilter(c, auth.value)} IN
    IF auth.tag = "raise" \/ auth.value = 0 THEN Denied("reset", auth)
    ELSE /\ NextId({c.id : c \in kept}) + n - 1 <= MaxCityId
         /\ cities' = ResetCommitted(auth.value, commits_ok)
         /\ Reply("reset", IF commits_ok = n THEN 303 ELSE 500, auth.value,
                  <<>>)
         /\ UNCHANGED <<users, default_cities, cookie, saved, now, ticks>>

\* what fetch_weather gives for one city: a number, null, or an exception
FetchOutcomes ==
    {[raised |-> FALSE, value |-> {t}] : t \in Temperatures}
    \cup {[raised |-> FALSE, value |-> {}], [raised |-> TRUE, value |-> {}]}

\* the WHERE clause with <= for <: a city updated exactly a minute ago is
\* selected too
StaleFilterInclusive(c, user_id, delta) ==
    /\ c.user_id = user_id
    /\ (c.temperature = {} \/ \E t \in c.updated_at : t <= delta)

\* the WHERE clause of update_weather; a comparison with NULL is not true
StaleFilter(c, user_id, delta) ==
    /\ c.user_id = user_id
    /\ (c.temperature = {} \/ \E t \in c.updated_at : t < delta)

\* the cities the query of update_weather returns
Selected(user_id) ==
    {c \in cities : StaleFilter(c, user_id, now - STALE_SECONDS)}

update_weather(results) ==
    LET auth == get_current_user(cookie)
        selected == Selected(auth.value)
        failed == {c.id : c \in {x \in selected : results[x.id].raised}}
        \* the loop runs in the order of the query, here by id, and stops
        \* at the first lookup that raises
        looked == {c.id : c \in {x \in selected :
                                   \A f \in failed : x.id <= f}} IN
    IF auth.tag = "raise" \/ auth.value = 0 THEN Denied("update", auth)
    ELSE /\ cities' =
              IF failed # {} THEN cities
              ELSE {IF c \in selected
                    THEN [c EXCEPT !.temperature = results[c.id].value,
                                   !.updated_at = {now}]
                    ELSE c : c \in cities}
         /\ Reply("update", IF failed = {} THEN 303 ELSE 500, auth.value,
                  [selected |-> {c.id : c \in selected},
                   fetched |-> looked \ failed,
                   failed |-> looked \cap failed])
         /\ UNCHANGED <<users, default_cities, cookie, saved, now, ticks>>

\* register without its first query: no username is found to exist
UsernameExistsUnchecked(username) == FALSE

\* the first query of register
UsernameExists(username) ==
    \E i \in DOMAIN users : users[i].username = username

\* unique=True of users.username
UniqueUsername(table) ==
    \A i, j \in DOMAIN table : table[i].username = table[j].username => i = j

register(username, password, salt, commits_ok) ==
    LET id == NextId(UserIds)
        user == [id |-> id, username |-> username,
                 password |-> hash_password(password, salt)]
        seeded == SeedCities(Cardinality(default_cities), NextId(CityIds), id)
        form == [username |-> username] IN
    IF UsernameExists(username)
    THEN /\ Reply("register", 400, 0, form)
         /\ UNCHANGED <<users, cities, default_cities, cookie, saved, now,
                        ticks>>
    ELSE IF ~UniqueUsername(Append(users, user)) \/ commits_ok = 0
    THEN /\ Reply("register", 500, 0, form)
         /\ UNCHANGED <<users, cities, default_cities, cookie, saved, now,
                        ticks>>
    ELSE /\ id <= MaxUsers
         /\ NextId(CityIds) + Cardinality(default_cities) - 1 <= MaxCityId
         /\ users' = Append(users, user)
         /\ cities' = IF commits_ok = 1 THEN cities ELSE cities \cup seeded
         /\ cookie' = IF commits_ok = 1 THEN cookie ELSE create_token(id, now)
         /\ Reply("register", IF commits_ok = 1 THEN 500 ELSE 303, id, form)
         /\ UNCHANGED <<default_cities, saved, now, ticks>>

\* the rows the query of login matches; SQLite scans the table by id, and
\* first() returns the row of the least id
LoginMatches(username) ==
    {i \in DOMAIN users : ilike(users[i].username, username)}

login(username, password) ==
    LET matches == LoginMatches(username)
        form == [username |-> username, password |-> password] IN
    IF matches = {}
    THEN /\ Reply("login", 401, 0, form)
         /\ UNCHANGED <<users, cities, default_cities, cookie, saved, now,
                        ticks>>
    ELSE LET user == users[Min(matches)] IN
         IF ~verify_password(password, user.password)
         THEN /\ Reply("login", 401, 0, form)
              /\ UNCHANGED <<users, cities, default_cities, cookie, saved,
                             now, ticks>>
         ELSE /\ cookie' = create_token(user.id, now)
              /\ Reply("login", 303, user.id, form)
              /\ UNCHANGED <<users, cities, default_cities, saved, now,
                             ticks>>

logout ==
    /\ cookie' = NoToken
    /\ Reply("logout", 303, 0, <<>>)
    /\ UNCHANGED <<users, cities, default_cities, saved, now, ticks>>

\* GET / with the cookie session_token
read_root(session_token) ==
    LET data == IF session_token.shape = "none" THEN Return(0)
                ELSE validate_token(session_token, now)
        user == IF data.tag = "return" /\ data.value \in UserIds
                THEN data.value ELSE 0
        listed == {c \in cities : c.user_id = user} IN
    /\ Reply("read_root",
             IF data.tag = "raise" THEN 500 ELSE IF user = 0 THEN 303 ELSE 200,
             user,
             [token |-> session_token,
              listed |-> IF user = 0 THEN {} ELSE listed])
    /\ UNCHANGED <<users, cities, default_cities, cookie, saved, now, ticks>>

----------------------------------------------------------------------------
(* The environment: the clock, and the client side of the cookie.          *)

\* the browser drops the cookie max_age seconds after it was set
COOKIE_MAX_AGE == 3600

Tick(seconds) ==
    /\ ticks < MaxTicks
    /\ ticks' = ticks + 1
    /\ now' = now + seconds
    /\ cookie' = IF cookie.shape = "signed"
                    /\ now + seconds - cookie.ts >= COOKIE_MAX_AGE
                 THEN NoToken ELSE cookie
    /\ Reply("tick", 0, 0, <<>>)
    /\ UNCHANGED <<users, cities, default_cities, saved>>

TickSeconds == Tick(30)

TickHour == Tick(3600)

\* a copy of the cookie's token is kept outside the browser
SaveToken ==
    /\ cookie.shape = "signed"
    /\ saved' = cookie
    /\ Reply("save", 0, 0, <<>>)
    /\ UNCHANGED <<users, cities, default_cities, cookie, now, ticks>>

----------------------------------------------------------------------------
Register ==
    \E username \in Usernames, password \in Passwords, salt \in BcryptSalts,
       commits_ok \in 0..2 : register(username, password, salt, commits_ok)

\* registrations in which the persistence layer does not fail
Signup ==
    \E username \in Usernames, password \in Passwords, salt \in BcryptSalts :
        register(username, password, salt, 2)

\* registrations that differ in the username only
Enrol ==
    \E username \in Usernames, commits_ok \in 0..2 :
        register(username, "pw1", "s1", commits_ok)

Login ==
    \E username \in LoginNames, password \in Passwords :
        login(username, password)

Logout == logout

ReadRoot ==
    \E session_token \in {cookie, saved} \cup ForgedTokens :
        read_root(session_token)

\* GET / from the browser
ListCities == read_root(cookie)

AddCity == \E form \in AddForms : add_city(form)

RemoveCity == \E city_id \in 1..MaxCityId : remove_city(city_id)

ResetCities ==
    \E commits_ok \in 0..Cardinality(default_cities) : reset_cities(commits_ok)

\* one lookup outcome for each city the request selects; the loop ends at
\* the first lookup that raises, so the outcomes after it are never asked
\* for and are taken to raise as well
UpdateWeather ==
    \E results \in [{c.id : c \in Selected(get_current_user(cookie).value)}
                       -> FetchOutcomes] :
        /\ \A i, j \in DOMAIN results :
              (results[i].raised /\ i < j) => results[j].raised
        /\ update_weather(results)

\* the update with every lookup giving a number or raising
UpdateWeatherNumbers ==
    \E results \in [{c.id : c \in Selected(get_current_user(cookie).value)}
                       -> {o \in FetchOutcomes : o.raised \/ o.value # {}}] :
        /\ \A i, j \in DOMAIN results :
              (results[i].raised /\ i < j) => results[j].raised
        /\ update_weather(results)

\* logins with the password of Enrol
Relogin == \E username \in Usernames : login(username, "pw1")

Next ==
    \/ Register
    \/ Login
    \/ Logout
    \/ ReadRoot
    \/ AddCity
    \/ RemoveCity
    \/ ResetCities
    \/ UpdateWeather
    \/ TickSeconds
    \/ TickHour
    \/ SaveToken

Spec == Init /\ [][Next]_vars

\* accounts and sessions over the lifetime of a token, with a persistence
\* layer that does not fail
NextAuth ==
    \/ Signup
    \/ Login
    \/ Logout
    \/ ReadRoot
    \/ TickSeconds
    \/ TickHour
    \/ SaveToken

SpecAuth == Init /\ [][NextAuth]_vars

\* the city lists of the users at one instant; the lookups that return no
\* value are left to SpecRefresh
NextStore ==
    \/ Enrol
    \/ Relogin
    \/ AddCity
    \/ RemoveCity
    \/ ResetCities
    \/ UpdateWeatherNumbers
    \/ ListCities

SpecStore == Init /\ [][NextStore]_vars

\* the refresh of the temperatures as the clock advances
NextRefresh ==
    \/ Enrol
    \/ UpdateWeather
    \/ TickSeconds

SpecRefresh == Init /\ [][NextRefresh]_vars

----------------------------------------------------------------------------
(* Properties.                                                             *)

\* a token create_token made for a registered user
Issued(token) ==
    /\ token.shape = "signed"
    /\ token.user_id \in UserIds
    /\ token = create_token(token.user_id, token.ts)

\* the fields a City copies from a DefaultCity
Place(c) == [name |-> c.name, latitude |-> c.latitude,
             longitude |-> c.longitude]

\* C1: GET / with a token that is malformed, carries a wrong signature or is
\* older than 3600 seconds is answered by the redirect to /login for no user;
\* validate_token hands None to its caller and the request does not fail.
C1_InvalidTokenRedirects ==
    LET token == resp.detail.token IN
    (/\ resp.op = "read_root"
     /\ \/ token.shape = "malformed"
        \/ token.shape = "signed"
           /\ token.sig # Sign(SECRET_KEY, SALT, token.user_id, token.ts)
        \/ token.shape = "signed" /\ now - token.ts > 3600)
    => resp.status = 303 /\ resp.user = 0

\* C2: a token issued for user U at time t shows U's page at every time up
\* to t + 3600 and is answered as invalid (the redirect, no user) at every
\* later time, whatever logins and logouts happened in between.
C2_TokenLifetime ==
    LET token == resp.detail.token IN
    (resp.op = "read_root" /\ Issued(token))
    => IF now - token.ts <= 3600
       THEN resp.status = 200 /\ resp.user = token.user_id
       ELSE resp.status = 303 /\ resp.user = 0

\* C3: a request authenticated as user U creates, deletes and modifies only
\* cities of U, GET / lists only cities of U, and a remove of another user's
\* city leaves the table as it was.
C3_OwnershipScope ==
    [][LET U == resp'.user IN
       /\ resp'.op \in {"add", "remove", "reset", "update", "read_root"}
          => \A c \in (cities \ cities') \cup (cities' \ cities) :
                U # 0 /\ c.user_id = U
       /\ resp'.op = "read_root"
          => \A c \in resp'.detail.listed : U # 0 /\ c.user_id = U
       /\ (/\ resp'.op = "remove"
           /\ \E c \in cities : c.id = resp'.detail.city_id /\ c.user_id # U)
          => cities' = cities]_vars

\* C3, witness: a user's remove request named a city of another user
C3_Witness ==
    /\ resp.op = "remove"
    /\ resp.status = 303
    /\ resp.user # 0
    /\ \E c \in cities : c.id = resp.detail.city_id /\ c.user_id # resp.user

\* C4: a reset leaves the owner's list either as it was or holding all the
\* default cities, and a reset that failed leaves it as it was.
C4_ResetAtomic ==
    [][resp'.op = "reset" /\ resp'.user # 0
       => LET before == {c \in cities : c.user_id = resp'.user}
              after == {c \in cities' : c.user_id = resp'.user} IN
          /\ resp'.status = 500 => after = before
          /\ \/ after = before
             \/ {Place(c) : c \in after} = {Place(d) : d \in default_cities}
                /\ Cardinality(after) = Cardinality(default_cities)]_vars

\* C5: an update in which a lookup fails still ends with the redirect, every
\* city whose lookup succeeded holds the time of the update, and the city
\* whose lookup failed is as it was.
C5_RefreshIsolation ==
    [][resp'.op = "update" /\ resp'.user # 0
       => /\ resp'.status = 303
          /\ \A c \in cities' :
                c.id \in resp'.detail.fetched => c.updated_at = {now}
          /\ \A c \in cities :
                c.id \in resp'.detail.failed => c \in cities']_vars

C7_LoginIgnoresCase ==
    LET owners == {i \in DOMAIN users :
                     /\ Lower(users[i].username) = Lower(resp.detail.username)
                     /\ verify_password(resp.detail.password,
                                        users[i].password)} IN
    (resp.op = "login" /\ owners # {})
    => /\ resp.status = 303
       /\ resp.user \in {users[i].id : i \in owners}
       /\ cookie = create_token(resp.user, now)

\* C8: an update of user U selects exactly the cities of U whose temperature
\* is absent or whose update is more than 60 seconds old; the others are not
\* modified; a city updated 30 seconds ago is not selected, one updated 90
\* seconds ago is.
C8_SelectStale ==
    [][resp'.op = "update" /\ resp'.user # 0
       => LET U == resp'.user
              stale == {c \in cities :
                          /\ c.user_id = U
                          /\ \/ c.temperature = {}
                             \/ c.updated_at # {}
                                /\ \A t \in c.updated_at : now - t > 60} IN
          /\ resp'.detail.selected = {c.id : c \in stale}
          /\ \A c \in cities \ stale : c \in cities'
          /\ resp'.status = 303
             => \A c \in stale :
                   \E d \in cities' : d.id = c.id /\ d.updated_at = {now}
          /\ \A c \in cities :
                (c.temperature # {} /\ c.updated_at = {now - 30})
                => c.id \notin resp'.detail.selected /\ c \in cities'
          /\ \A c \in cities :
                (c.user_id = U /\ c.updated_at = {now - 90})
                => c.id \in resp'.detail.selected]_vars

\* C8, witness: an update found one city of the user updated 30 seconds ago,
\* which it did not select, and one updated 90 seconds ago, which it did;
\* the lookup failed, and the state still shows both as they were
C8_Witness ==
    /\ resp.op = "update"
    /\ resp.user # 0
    /\ \E c \in CitiesOf(resp.user) :
          /\ c.temperature # {} /\ c.updated_at = {now - 30}
          /\ c.id \notin resp.detail.selected
    /\ \E c \in CitiesOf(resp.user) :
          /\ c.temperature # {} /\ c.updated_at = {now - 90}
          /\ c.id \in resp.detail.selected

\* C9: every city has its temperature and its updated_at both absent or both
\* present.
C9_BothOrNeither ==
    \A c \in cities : (c.temperature = {}) <=> (c.updated_at = {})

\* C10: once a register request has created a user, the user's cities are
\* one per default city, with its name and coordinates and with no
\* temperature and no update time, and no others.
C10_RegisteredUserSeeded ==
    (resp.op = "register" /\ resp.user # 0)
    => LET mine == CitiesOf(resp.user) IN
       /\ Cardinality(mine) = Cardinality(default_cities)
       /\ {Place(c) : c \in mine} = {Place(d) : d \in default_cities}
       /\ \A c \in mine : c.temperature = {} /\ c.updated_at = {}

====
